---- MODULE Spec2Model ----
(***************************************************************************)
(* Model of xmlunittest.XmlTestMixin: XML assertions layered on lxml.      *)
(*                                                                         *)
(* One assertion call is in flight at a time.  A call is started by a      *)
(* "..._call" action with its arguments, the loops of the XPath            *)
(* assertions advance one expression per "..._next" action (the            *)
(* expressions come from the generator build_xpath_expressions, which      *)
(* compiles one XPath each time the loop asks for the next one), and the   *)
(* call ends with outcome "returned" or with the name of the exception     *)
(* that leaves the method.                                                 *)
(*                                                                         *)
(* lxml is modelled by what the assertions observe of it:                  *)
(*   - an element is its nsmap (prefix/url pairs in declaration order, ""  *)
(*     standing for Python's None prefix) and its child elements (the      *)
(*     namespace uri each one is in, "" for none, and the value of its id  *)
(*     attribute);                                                         *)
(*   - an XPath is a location path "./prefix:sub" (kind "element") or      *)
(*     "./prefix:sub/@id" (kind "attribute"), or a text that does not      *)
(*     compile (kind "invalid");                                           *)
(*   - a document is a sequence of markup tokens.                          *)
(***************************************************************************)
EXTENDS Integers, Sequences, FiniteSets, TLC

(* ---- bounds of the model ---- *)
MaxChildren == 2
MaxXpaths == 2
MaxTokens == 3
MaxAttributes == 2

(* ---- universes the arguments are drawn from ---- *)
NoPrefix == ""
Prefixes == {NoPrefix, "ns", "custom"}
URIs == {"A", "B"}
DefaultPrefixes == {"ns", "custom"}
Values == {"1", "2"}

SeqsUpTo(S, n) == UNION {[1..k -> S] : k \in 0..n}

Range(s) == {s[k] : k \in DOMAIN s}

Injective(s) == \A a, b \in DOMAIN s : a /= b => s[a] /= s[b]

(* nsmap of an element: each prefix declared once, each uri under one prefix *)
NsMaps ==
    {m \in SeqsUpTo([prefix : Prefixes, url : URIs], Cardinality(URIs)) :
        /\ Injective([k \in DOMAIN m |-> m[k].prefix])
        /\ Injective([k \in DOMAIN m |-> m[k].url])}

(* the child elements are in no namespace or in namespace "A"; no element *)
(* is in namespace "B"                                                    *)
ChildElements == [uri : {"", "A"}, id : Values]

Nodes == [nsmap : NsMaps, children : SeqsUpTo(ChildElements, MaxChildren)]

XPaths == [kind : {"element", "attribute"}, prefix : Prefixes]
              \cup {[kind |-> "invalid", prefix |-> NoPrefix]}

NoNode == [nsmap |-> <<>>, children |-> <<>>]

None == "None"

(* markup tokens: start tag, end tag, empty-element tag, character data,  *)
(* and a bare "&", which is not well-formed anywhere                      *)
default_partial_tag == "partialTest"
Tags == {default_partial_tag, "customTag", "partial"}
Tokens == [type : {"open", "close", "empty"}, name : Tags]
              \cup [type : {"text", "amp"}, name : {""}]
Documents == SeqsUpTo(Tokens, MaxTokens)
RootTags == {None, "customTag", "partial"}

NoElement == [tag |-> "", len |-> 0]

(* schemas: the content of a schema is what it accepts, "one": a root     *)
(* with exactly one child (<!ELEMENT root (child)>), "any": every root;   *)
(* "malformed" is a text that is no schema                                *)
SchemaContents == {"one", "any"}
SchemaTexts == SchemaContents \cup {"malformed"}
NoSchema == [form |-> None, content |-> ""]
SchemaArgs == {NoSchema} \cup [form : {"text"}, content : SchemaTexts]
                  \cup [form : {"object"}, content : SchemaContents]
Filenames == {None, "one.file", "any.file", "malformed.file", "absent.file"}
SchemaNodes == {n \in Nodes : n.nsmap = <<>>}

(* attributes: node.attrib maps the (namespace uri, local name) of each   *)
(* attribute of the node to its value, ns "" for an attribute in no       *)
(* namespace; an attribute in a namespace is written with a prefix that   *)
(* the nsmap of the node binds to that namespace                          *)
AttributeNames == {"att", "no_att"}
AttributeKeys == [ns : {"", "A"}, tag : AttributeNames]
Attribs ==
    UNION {[K -> Values] :
              K \in {S \in SUBSET AttributeKeys : Cardinality(S) <= MaxAttributes}}
NoAttrib == [k \in {} |-> ""]

PrefixesOf(m, uri) ==
    {m[k].prefix : k \in {j \in DOMAIN m : m[j].url = uri}} \ {NoPrefix}

AttributeNodes ==
    {n \in [nsmap : {m \in NsMaps : Len(m) <= 1}, attrib : Attribs] :
        \A key \in DOMAIN n.attrib :
            key.ns /= "" => PrefixesOf(n.nsmap, key.ns) /= {}}

(* the attribute argument is a text: a bare name "att", a name in         *)
(* '{uri}att' notation, or a name in 'prefix:att' notation                *)
AttributeArgs ==
    [notation : {"plain"}, ns : {""}, name : AttributeNames]
        \cup [notation : {"clark"}, ns : URIs, name : AttributeNames]
        \cup [notation : {"prefixed"}, ns : DefaultPrefixes,
              name : AttributeNames]
NoAttribute == [notation |-> "plain", ns |-> "", name |-> ""]

(* keyword arguments: keys holds the names that the call passes; a name   *)
(* that is not passed has its default                                     *)
Kwargs ==
    {kw \in [keys : SUBSET {"expected_value", "expected_values"},
             expected_value : Values \cup {None},
             expected_values : SUBSET Values] :
        /\ "expected_value" \notin kw.keys => kw.expected_value = None
        /\ "expected_values" \notin kw.keys => kw.expected_values = {}}
NoKwargs == [keys |-> {}, expected_value |-> None, expected_values |-> {}]

(* XML outputs: an output is the text of one element,                     *)
(*   <prefix:name xmlns:prefix="uri" attributes>text</prefix:name>,       *)
(* with prefix and uri "" for an element in no namespace, its attributes  *)
(* in the order they are written and its text as a sequence of            *)
(* characters; an output with the name "<" is no XML.  The texts hold no  *)
(* "...", the elements have no children and no tail.                      *)
OutputNames == {"tag", "notTag", "any"}
OutputNamespaces ==
    {[prefix |-> "", uri |-> ""], [prefix |-> "foo", uri |-> "A"],
     [prefix |-> "bar", uri |-> "A"], [prefix |-> "foo", uri |-> "B"],
     [prefix |-> "foo", uri |-> "..."]}
OutputAttributes == {[name |-> "foo", value |-> "bar"],
                     [name |-> "bar", value |-> "foo"]}
OutputAttribs ==
    {s \in SeqsUpTo(OutputAttributes, Cardinality(OutputAttributes)) :
        Injective([k \in DOMAIN s |-> s[k].name])}
OutputTexts == {<<>>, <<"f">>, <<" ", "f", " ">>, <<"f", " ", "f">>,
                <<"f", " ", " ", "f">>, <<"f", "f">>}
NotXml == [ns |-> [prefix |-> "", uri |-> ""], name |-> "<",
           attributes |-> <<>>, text |-> <<>>]
Outputs ==
    [ns : OutputNamespaces, name : OutputNames, attributes : OutputAttribs,
     text : OutputTexts] \cup {NotXml}
NoOutput == [ns |-> [prefix |-> "", uri |-> ""], name |-> "",
             attributes |-> <<>>, text |-> <<>>]

(* ---- state ---- *)
VARIABLES
    op,                 \* the assertion method in flight, or "idle"
    node,               \* its node argument
    default_ns_prefix,  \* its default_ns_prefix argument
    xpaths,             \* the XPaths taken from its xpaths argument so far
    values,             \* the values argument of assertXpathValues
    data,               \* the data / partial_data argument
    root_tag,           \* the root_tag argument of assertXmlPartial
    schema,             \* the dtd / xschema / relaxng argument
    filename,           \* the filename argument
    validated,          \* schema.validate(node) has been called
    result,             \* the element the call returned
    attrib,             \* node.attrib of the node of assertXmlHasAttribute
    attribute,          \* the attribute argument
    kwargs,             \* the keyword arguments of assertXmlHasAttribute
    expected,           \* the expected argument of assertXmlEquivalentOutputs
    outcome            \* "running", "returned" or the exception raised

vars == <<op, node, default_ns_prefix, xpaths, values, data, root_tag,
          schema, filename, validated, result, attrib, attribute, kwargs,
          expected, outcome>>

failureException == "failureException"

(* ---- lxml, as the assertions use it ---- *)

(* dict((prefix or default_ns_prefix, url) for prefix, url in             *)
(* node.nsmap.items()): a later pair replaces an earlier one of the same  *)
(* key.                                                                   *)
RECURSIVE dict(_, _)
dict(pairs, default) ==
    IF pairs = <<>> THEN [k \in {} |-> ""]
    ELSE LET front == dict(SubSeq(pairs, 1, Len(pairs) - 1), default)
             last == pairs[Len(pairs)]
             key == IF last.prefix = NoPrefix THEN default ELSE last.prefix
         IN [k \in DOMAIN front \cup {key} |->
                IF k = key THEN last.url ELSE front[k]]

namespaces(n, default) == dict(n.nsmap, default)

(* etree.XPath(xpath, namespaces=namespaces) raises XPathSyntaxError      *)
XPathSyntaxError(xp) == xp.kind = "invalid"

(* the children of n that step "prefix:sub" selects: an unprefixed name    *)
(* selects elements in no namespace, a prefixed one the elements in the   *)
(* namespace the prefix is bound to                                       *)
Selected(n, uri) == {k \in DOMAIN n.children : n.children[k].uri = uri}

RECURSIVE InOrder(_)
InOrder(S) ==
    IF S = {} THEN <<>>
    ELSE LET least == CHOOSE k \in S : \A o \in S : k <= o
         IN <<least>> \o InOrder(S \ {least})

(* expression(node): XPathEvalError for a prefix the map does not bind,   *)
(* else the results in document order: elements, or attribute values      *)
evaluate(xp, n, nss) ==
    IF xp.prefix /= NoPrefix /\ xp.prefix \notin DOMAIN nss
    THEN [error |-> TRUE, results |-> <<>>]
    ELSE LET uri == IF xp.prefix = NoPrefix THEN "" ELSE nss[xp.prefix]
             found == InOrder(Selected(n, uri))
         IN [error |-> FALSE,
             results |-> [k \in DOMAIN found |->
                 IF xp.kind = "element"
                 THEN [element |-> found[k], text |-> ""]
                 ELSE [element |-> 0, text |-> n.children[found[k]].id]]]

(* mutant: XPathSyntaxError is not caught *)
build_xpath_expression_uncaught(n, xp, default) ==
    IF XPathSyntaxError(xp)
    THEN [raised |-> "XPathSyntaxError", path |-> xp,
          namespaces |-> namespaces(n, default)]
    ELSE [raised |-> "", path |-> xp, namespaces |-> namespaces(n, default)]

(* build_xpath_expressions / build_xpath_expression: the compiled         *)
(* expression of one XPath, or the failure fail_xpath_error raises        *)
build_xpath_expression(n, xp, default) ==
    IF XPathSyntaxError(xp)
    THEN [raised |-> failureException, path |-> xp,
          namespaces |-> namespaces(n, default)]
    ELSE [raised |-> "", path |-> xp, namespaces |-> namespaces(n, default)]

(* ---- the loop bodies of the XPath assertions: the outcome of the call  *)
(* after the body ran on one expression ("running": the loop goes on)     *)

(* mutant: the empty result is not reported *)
exist_body_no_not_found(expression, n) ==
    LET r == evaluate(expression.path, n, expression.namespaces)
    IN IF r.error THEN failureException ELSE "running"

exist_body(expression, n) ==
    LET r == evaluate(expression.path, n, expression.namespaces)
    IN IF r.error THEN failureException           \* fail_xpath_error
       ELSE IF r.results = <<>> THEN failureException   \* fail_xpath_not_found
       ELSE "running"

(* mutant: the count of the results is not checked *)
only_one_body_no_count(expression, n) ==
    LET r == evaluate(expression.path, n, expression.namespaces)
    IN IF r.error THEN failureException
       ELSE IF r.results = <<>> THEN failureException
       ELSE "running"

only_one_body(expression, n) ==
    LET r == evaluate(expression.path, n, expression.namespaces)
    IN IF r.error THEN failureException
       ELSE IF r.results = <<>> THEN failureException
       ELSE IF Len(r.results) > 1 THEN failureException
       ELSE "running"

(* mutant: more than one result is taken for a repeated value *)
unique_value_body_single(expression, n) ==
    LET r == evaluate(expression.path, n, expression.namespaces)
    IN IF r.error THEN failureException
       ELSE IF Len(r.results) > 1 THEN failureException
       ELSE "running"

unique_value_body(expression, n) ==
    LET r == evaluate(expression.path, n, expression.namespaces)
    IN IF r.error THEN failureException
       ELSE IF Len(r.results) /= Cardinality(Range(r.results))
            THEN failureException
       ELSE "running"

(* mutant: every member of values has to be found *)
values_body_all_found(expression, n, vals) ==
    LET r == evaluate(expression.path, n, expression.namespaces)
    IN IF r.error THEN failureException
       ELSE IF {r.results[k].text : k \in DOMAIN r.results} /= vals
            THEN failureException
       ELSE "returned"

(* for result in results: if result not in values: fail; values holds     *)
(* strings, which an element never equals                                 *)
values_body(expression, n, vals) ==
    LET r == evaluate(expression.path, n, expression.namespaces)
    IN IF r.error THEN failureException
       ELSE IF \E k \in DOMAIN r.results :
                  r.results[k].element /= 0 \/ r.results[k].text \notin vals
            THEN failureException
       ELSE "returned"

(* ---- etree.fromstring on a token sequence ---- *)

ParseStart == [stack |-> <<>>, tag |-> "", len |-> 0, closed |-> FALSE,
               error |-> FALSE]

(* one token read by the parser: stack holds the open elements, tag and   *)
(* len the root's tag and its number of child elements, closed is set     *)
(* once the root element has ended                                        *)
feed(st, t) ==
    IF st.error THEN st
    ELSE IF t.type = "amp" THEN [st EXCEPT !.error = TRUE]
    ELSE IF t.type = "text"
         THEN IF st.stack = <<>> THEN [st EXCEPT !.error = TRUE] ELSE st
    ELSE IF t.type = "close"
         THEN IF st.stack = <<>> \/ st.stack[Len(st.stack)] /= t.name
              THEN [st EXCEPT !.error = TRUE]
              ELSE [st EXCEPT !.stack = SubSeq(st.stack, 1, Len(st.stack) - 1),
                              !.closed = (Len(st.stack) = 1)]
    ELSE IF st.stack = <<>>
         THEN IF st.closed THEN [st EXCEPT !.error = TRUE]
              ELSE IF t.type = "open"
                   THEN [st EXCEPT !.stack = <<t.name>>, !.tag = t.name]
                   ELSE [st EXCEPT !.tag = t.name, !.closed = TRUE]
    ELSE [st EXCEPT
             !.stack = IF t.type = "open" THEN Append(st.stack, t.name)
                       ELSE st.stack,
             !.len = IF Len(st.stack) = 1 THEN st.len + 1 ELSE st.len]

RECURSIVE parse(_, _)
parse(tokens, st) ==
    IF tokens = <<>> THEN st ELSE parse(Tail(tokens), feed(st, Head(tokens)))

(* the root element, or XMLSyntaxError *)
fromstring(tokens) ==
    LET st == parse(tokens, ParseStart)
    IN IF st.error \/ st.stack /= <<>> \/ ~st.closed
       THEN [raised |-> "XMLSyntaxError", doc |-> NoElement]
       ELSE [raised |-> "", doc |-> [tag |-> st.tag, len |-> st.len]]

(* '<%s>%s</%s>' % (tag_name, partial_data, tag_name) *)
consolidated(tag_name, partial_data) ==
    <<[type |-> "open", name |-> tag_name]>> \o partial_data
        \o <<[type |-> "close", name |-> tag_name]>>

(* mutant: XMLSyntaxError is not caught *)
xml_document_uncaught(d) ==
    LET parsed == fromstring(d)
    IN IF parsed.raised = "XMLSyntaxError"
       THEN [outcome |-> "XMLSyntaxError", result |-> NoElement]
       ELSE [outcome |-> "returned", result |-> parsed.doc]

(* the body of assertXmlDocument: XMLSyntaxError becomes a test failure   *)
xml_document(d) ==
    LET parsed == fromstring(d)
    IN IF parsed.raised = "XMLSyntaxError"
       THEN [outcome |-> failureException, result |-> NoElement]
       ELSE [outcome |-> "returned", result |-> parsed.doc]

(* mutant: a root without child elements is returned *)
xml_partial_no_len(d, tag) ==
    LET tag_name == IF tag /= None THEN tag ELSE default_partial_tag
        parsed == fromstring(consolidated(tag_name, d))
    IN IF parsed.raised = "XMLSyntaxError"
       THEN [outcome |-> failureException, result |-> NoElement]
       ELSE [outcome |-> "returned", result |-> parsed.doc]

(* the body of assertXmlPartial *)
xml_partial(d, tag) ==
    LET tag_name == IF tag /= None THEN tag ELSE default_partial_tag
        parsed == fromstring(consolidated(tag_name, d))
    IN IF parsed.raised = "XMLSyntaxError"
       THEN [outcome |-> failureException, result |-> NoElement]
       ELSE IF parsed.doc.len = 0
            THEN [outcome |-> failureException, result |-> NoElement]
       ELSE [outcome |-> "returned", result |-> parsed.doc]

(* ---- schemas ---- *)

(* etree.DTD / etree.XMLSchema / etree.RelaxNG on a schema text *)
compile(text, parse_error) ==
    IF text \in SchemaContents THEN [raised |-> "", schema |-> text]
    ELSE [raised |-> parse_error, schema |-> None]

(* the text of the files on disk; "absent.file" does not exist *)
file_text(name) ==
    CASE name = "one.file" -> "one"
      [] name = "any.file" -> "any"
      [] OTHER -> "malformed"

(* open(filename, 'r') and the schema built from what is read *)
open_schema(name, parse_error) ==
    IF name = "absent.file" THEN [raised |-> "IOError", schema |-> None]
    ELSE compile(file_text(name), parse_error)

(* schema.validate(node) *)
validate(content, n) == content = "any" \/ Len(n.children) = 1

(* the first lines of assertXmlValidDTD: the schema object, None or the   *)
(* exception raised on the way                                            *)
load_dtd(dtd, name) ==
    LET given == IF dtd.form = "object"
                 THEN [raised |-> "", schema |-> dtd.content]
                 ELSE IF dtd.form /= None
                      THEN compile(dtd.content, "DTDParseError")
                      ELSE [raised |-> "", schema |-> None]
    IN IF given.raised /= "" THEN given
       ELSE IF given.schema = None /\ name /= None
            THEN open_schema(name, "DTDParseError")
       ELSE given

(* mutant: the file is never opened *)
load_xml_schema_no_file(arg, name, parse_error) ==
    IF arg.form /= None /\ arg.form /= "object"
    THEN compile(arg.content, parse_error)
    ELSE IF arg.form = "object"
         THEN [raised |-> "", schema |-> arg.content]
         ELSE [raised |-> "", schema |-> None]

(* assertXmlValidXSchema and assertXmlValidRelaxNG test the argument, not *)
(* the schema, before they open the file                                  *)
load_xml_schema(arg, name, parse_error) ==
    LET given == IF arg.form /= None /\ arg.form /= "object"
                 THEN compile(arg.content, parse_error)
                 ELSE IF arg.form = "object"
                      THEN [raised |-> "", schema |-> arg.content]
                      ELSE [raised |-> "", schema |-> None]
    IN IF given.raised /= "" THEN given
       ELSE IF arg.form = None /\ name /= None
            THEN open_schema(name, parse_error)
       ELSE given

(* mutant: the missing schema is reported as a test failure *)
check_schema_fail(loaded, n) ==
    IF loaded.raised /= ""
    THEN [outcome |-> loaded.raised, validated |-> FALSE]
    ELSE IF loaded.schema = None
         THEN [outcome |-> failureException, validated |-> FALSE]
    ELSE [outcome |-> IF validate(loaded.schema, n) THEN "returned"
                      ELSE failureException,
          validated |-> TRUE]

(* the last lines of the three validators *)
check_schema(loaded, n) ==
    IF loaded.raised /= ""
    THEN [outcome |-> loaded.raised, validated |-> FALSE]
    ELSE IF loaded.schema = None
         THEN [outcome |-> "ValueError", validated |-> FALSE]
    ELSE [outcome |-> IF validate(loaded.schema, n) THEN "returned"
                      ELSE failureException,
          validated |-> TRUE]

(* ---- attributes ---- *)

(* lxml splits the key given to node.attrib into namespace and name: a    *)
(* key '{uri}name' gives (uri, name), any other key gives (no namespace,  *)
(* the whole key); a prefix in the key is not looked up in the nsmap      *)
getNsTag(key) ==
    IF key.notation = "clark" THEN [ns |-> key.ns, tag |-> key.name]
    ELSE IF key.notation = "prefixed"
         THEN [ns |-> "", tag |-> key.ns \o ":" \o key.name]
    ELSE [ns |-> "", tag |-> key.name]

(* key in node.attrib *)
attrib_contains(a, key) == getNsTag(key) \in DOMAIN a

(* node.attrib.get(key) *)
attrib_get(a, key) == IF attrib_contains(a, key) THEN a[getNsTag(key)] ELSE None

(* mutant: expected_values is checked after expected_value *)
xml_has_attribute_both(a, key, kw) ==
    IF ~attrib_contains(a, key) THEN failureException
    ELSE IF "expected_value" \in kw.keys
            /\ attrib_get(a, key) /= kw.expected_value
    THEN failureException
    ELSE IF "expected_values" \in kw.keys
            /\ attrib_get(a, key) \notin kw.expected_values
    THEN failureException
    ELSE "returned"

(* assertIn(attribute, node.attrib), then assertEqual with expected_value *)
(* if it is passed, else assertIn with expected_values if it is passed    *)
xml_has_attribute(a, key, kw) ==
    IF ~attrib_contains(a, key) THEN failureException
    ELSE IF "expected_value" \in kw.keys
    THEN IF attrib_get(a, key) = kw.expected_value THEN "returned"
         ELSE failureException
    ELSE IF "expected_values" \in kw.keys
    THEN IF attrib_get(a, key) \in kw.expected_values THEN "returned"
         ELSE failureException
    ELSE "returned"

(* ---- LXMLOutputChecker.check_output(want, got, PARSE_XML) ---- *)

(* etree.XML(output): XMLSyntaxError, or the element: its tag is the      *)
(* namespace uri and the name, the prefix is not part of it               *)
XML(output) ==
    IF output.name = "<" THEN [raised |-> "XMLSyntaxError", doc |-> NoOutput]
    ELSE [raised |-> "",
          doc |-> [tag |-> [uri |-> output.ns.uri, name |-> output.name],
                   attrib |-> output.attributes,
                   text |-> output.text]]

(* norm_whitespace: a run of two or more spaces becomes one space *)
RECURSIVE norm_whitespace(_)
norm_whitespace(v) ==
    IF Len(v) < 2 THEN v
    ELSE IF v[1] = " " /\ v[2] = " " THEN norm_whitespace(Tail(v))
    ELSE <<v[1]>> \o norm_whitespace(Tail(v))

(* str.strip *)
RECURSIVE strip(_)
strip(v) ==
    IF v = <<>> THEN v
    ELSE IF v[1] = " " THEN strip(Tail(v))
    ELSE IF v[Len(v)] = " " THEN strip(SubSeq(v, 1, Len(v) - 1))
    ELSE v

(* text_compare: want, escaped and anchored, is searched in got *)
text_compare(want, got, stripped) ==
    IF stripped
    THEN strip(norm_whitespace(want)) = strip(norm_whitespace(got))
    ELSE want = got

(* mutant: the namespace is not compared *)
tag_compare_name(want, got) ==
    IF want.uri = "" /\ want.name = "any" THEN TRUE
    ELSE want.name = got.name

(* tag_compare: the tag 'any' matches every tag, the namespace '...'      *)
(* every namespace                                                        *)
tag_compare(want, got) ==
    IF want.uri = "" /\ want.name = "any" THEN TRUE
    ELSE IF want.uri = "..." THEN want.name = got.name
    ELSE want = got

keys(a) == {a[k].name : k \in DOMAIN a}

item(a, key) == a[CHOOSE k \in DOMAIN a : a[k].name = key].value

(* compare_docs: tag, text, then the sorted keys of the attributes and    *)
(* the value under each key                                               *)
compare_docs(want, got) ==
    /\ tag_compare(want.tag, got.tag)
    /\ text_compare(want.text, got.text, TRUE)
    /\ "any" \notin keys(want.attrib) =>
           /\ keys(want.attrib) = keys(got.attrib)
           /\ \A key \in keys(want.attrib) :
                  text_compare(item(want.attrib, key), item(got.attrib, key),
                               FALSE)

check_output(want, got) ==
    IF XML(want).raised /= "" THEN FALSE
    ELSE IF XML(got).raised /= "" THEN FALSE
    ELSE compare_docs(XML(want).doc, XML(got).doc)

(* ---- actions ---- *)

Init ==
    /\ op = "idle"
    /\ node = NoNode
    /\ default_ns_prefix = "ns"
    /\ xpaths = <<>>
    /\ values = {}
    /\ data = <<>>
    /\ root_tag = None
    /\ schema = NoSchema
    /\ filename = None
    /\ validated = FALSE
    /\ result = NoElement
    /\ attrib = NoAttrib
    /\ attribute = NoAttribute
    /\ kwargs = NoKwargs
    /\ expected = NoOutput
    /\ outcome = "returned"

(* assertXmlDocument(data) *)
assertXmlDocument ==
    /\ op = "idle"
    /\ \E d \in Documents :
        /\ op' = "assertXmlDocument"
        /\ data' = d
        /\ outcome' = xml_document(d).outcome
        /\ result' = xml_document(d).result
    /\ UNCHANGED <<node, default_ns_prefix, xpaths, values, root_tag, schema,
                   filename, validated, attrib, attribute, kwargs, expected>>

(* assertXmlPartial(partial_data, root_tag) *)
assertXmlPartial ==
    /\ op = "idle"
    /\ \E d \in Documents, tag \in RootTags :
        /\ op' = "assertXmlPartial"
        /\ data' = d
        /\ root_tag' = tag
        /\ outcome' = xml_partial(d, tag).outcome
        /\ result' = xml_partial(d, tag).result
    /\ UNCHANGED <<node, default_ns_prefix, xpaths, values, schema, filename,
                   validated, attrib, attribute, kwargs, expected>>

XpathsCall(name, n, default) ==
    /\ op' = name
    /\ node' = n
    /\ default_ns_prefix' = default
    /\ outcome' = "running"
    /\ UNCHANGED <<xpaths, values, data, root_tag, schema, filename,
                   validated, result, attrib, attribute, kwargs, expected>>

(* the loop takes the next XPath of xpaths: the generator compiles it,    *)
(* then the body runs on the expression                                   *)
XpathsNext(xp, after) ==
    /\ Len(xpaths) < MaxXpaths
    /\ xpaths' = Append(xpaths, xp)
    /\ outcome' = after
    /\ UNCHANGED <<op, node, default_ns_prefix, values, data, root_tag,
                   schema, filename, validated, result, attrib, attribute,
                   kwargs, expected>>

(* xpaths is exhausted: the method returns None *)
XpathsReturn(name) ==
    /\ op = name
    /\ outcome = "running"
    /\ outcome' = "returned"
    /\ UNCHANGED <<op, node, default_ns_prefix, xpaths, values, data,
                   root_tag, schema, filename, validated, result, attrib,
                   attribute, kwargs, expected>>

assertXpathsExist_call ==
    /\ op = "idle"
    /\ \E n \in Nodes, default \in DefaultPrefixes :
           XpathsCall("assertXpathsExist", n, default)

assertXpathsExist_next ==
    /\ op = "assertXpathsExist"
    /\ outcome = "running"
    /\ \E xp \in XPaths :
        LET expression == build_xpath_expression(node, xp, default_ns_prefix)
        IN XpathsNext(xp, IF expression.raised /= "" THEN expression.raised
                          ELSE exist_body(expression, node))

assertXpathsExist_return == XpathsReturn("assertXpathsExist")

assertXpathsOnlyOne_call ==
    /\ op = "idle"
    /\ \E n \in Nodes, default \in DefaultPrefixes :
           XpathsCall("assertXpathsOnlyOne", n, default)

assertXpathsOnlyOne_next ==
    /\ op = "assertXpathsOnlyOne"
    /\ outcome = "running"
    /\ \E xp \in XPaths :
        LET expression == build_xpath_expression(node, xp, default_ns_prefix)
        IN XpathsNext(xp, IF expression.raised /= "" THEN expression.raised
                          ELSE only_one_body(expression, node))

assertXpathsOnlyOne_return == XpathsReturn("assertXpathsOnlyOne")

assertXpathsUniqueValue_call ==
    /\ op = "idle"
    /\ \E n \in Nodes, default \in DefaultPrefixes :
           XpathsCall("assertXpathsUniqueValue", n, default)

assertXpathsUniqueValue_next ==
    /\ op = "assertXpathsUniqueValue"
    /\ outcome = "running"
    /\ \E xp \in XPaths :
        LET expression == build_xpath_expression(node, xp, default_ns_prefix)
        IN XpathsNext(xp, IF expression.raised /= "" THEN expression.raised
                          ELSE unique_value_body(expression, node))

assertXpathsUniqueValue_return == XpathsReturn("assertXpathsUniqueValue")

(* assertXpathValues(node, xpath, values, default_ns_prefix) *)
assertXpathValues ==
    /\ op = "idle"
    /\ \E n \in Nodes, xp \in XPaths, vals \in SUBSET Values,
          default \in DefaultPrefixes :
        LET expression == build_xpath_expression(n, xp, default)
        IN /\ op' = "assertXpathValues"
           /\ node' = n
           /\ default_ns_prefix' = default
           /\ xpaths' = <<xp>>
           /\ values' = vals
           /\ outcome' = IF expression.raised /= "" THEN expression.raised
                         ELSE values_body(expression, n, vals)
    /\ UNCHANGED <<data, root_tag, schema, filename, validated, result,
                   attrib, attribute, kwargs, expected>>

Validator(name, n, arg, file, checked) ==
    /\ op' = name
    /\ node' = n
    /\ schema' = arg
    /\ filename' = file
    /\ validated' = checked.validated
    /\ outcome' = checked.outcome
    /\ UNCHANGED <<default_ns_prefix, xpaths, values, data, root_tag, result,
                   attrib, attribute, kwargs, expected>>

(* assertXmlValidDTD(node, dtd, filename) *)
assertXmlValidDTD ==
    /\ op = "idle"
    /\ \E n \in SchemaNodes, arg \in SchemaArgs, file \in Filenames :
           Validator("assertXmlValidDTD", n, arg, file,
                     check_schema(load_dtd(arg, file), n))

(* assertXmlValidXSchema(node, xschema, filename) *)
assertXmlValidXSchema ==
    /\ op = "idle"
    /\ \E n \in SchemaNodes, arg \in SchemaArgs, file \in Filenames :
           Validator("assertXmlValidXSchema", n, arg, file,
                     check_schema(
                         load_xml_schema(arg, file, "XMLSchemaParseError"), n))

(* assertXmlValidRelaxNG(node, relaxng, filename) *)
assertXmlValidRelaxNG ==
    /\ op = "idle"
    /\ \E n \in SchemaNodes, arg \in SchemaArgs, file \in Filenames :
           Validator("assertXmlValidRelaxNG", n, arg, file,
                     check_schema(
                         load_xml_schema(arg, file, "RelaxNGParseError"), n))

(* assertXmlHasAttribute(node, attribute, **kwargs) *)
assertXmlHasAttribute ==
    /\ op = "idle"
    /\ \E n \in AttributeNodes, key \in AttributeArgs, kw \in Kwargs :
        /\ op' = "assertXmlHasAttribute"
        /\ node' = [nsmap |-> n.nsmap, children |-> <<>>]
        /\ attrib' = n.attrib
        /\ attribute' = key
        /\ kwargs' = kw
        /\ outcome' = xml_has_attribute(n.attrib, key, kw)
    /\ UNCHANGED <<default_ns_prefix, xpaths, values, data, root_tag, schema,
                   filename, validated, result, expected>>

(* assertXmlEquivalentOutputs(data, expected) *)
assertXmlEquivalentOutputs ==
    /\ op = "idle"
    /\ \E d \in Outputs, e \in Outputs :
        /\ op' = "assertXmlEquivalentOutputs"
        /\ data' = d
        /\ expected' = e
        /\ outcome' = IF check_output(e, d) THEN "returned"
                      ELSE failureException
    /\ UNCHANGED <<node, default_ns_prefix, xpaths, values, root_tag, schema,
                   filename, validated, result, attrib, attribute, kwargs>>

(* the test method goes on to its next assertion *)
Done ==
    /\ op /= "idle"
    /\ outcome /= "running"
    /\ op' = "idle"
    /\ node' = NoNode
    /\ default_ns_prefix' = "ns"
    /\ xpaths' = <<>>
    /\ values' = {}
    /\ data' = <<>>
    /\ root_tag' = None
    /\ schema' = NoSchema
    /\ filename' = None
    /\ validated' = FALSE
    /\ result' = NoElement
    /\ attrib' = NoAttrib
    /\ attribute' = NoAttribute
    /\ kwargs' = NoKwargs
    /\ expected' = NoOutput
    /\ outcome' = "returned"

Next ==
    \/ assertXmlDocument
    \/ assertXmlPartial
    \/ assertXpathsExist_call
    \/ assertXpathsExist_next
    \/ assertXpathsExist_return
    \/ assertXpathsOnlyOne_call
    \/ assertXpathsOnlyOne_next
    \/ assertXpathsOnlyOne_return
    \/ assertXpathsUniqueValue_call
    \/ assertXpathsUniqueValue_next
    \/ assertXpathsUniqueValue_return
    \/ assertXpathValues
    \/ assertXmlValidDTD
    \/ assertXmlValidXSchema
    \/ assertXmlValidRelaxNG
    \/ assertXmlHasAttribute
    \/ assertXmlEquivalentOutputs
    \/ Done

Spec == Init /\ [][Next]_vars

(* ---- what an XPath finds on the node of the call in flight ---- *)

Compiles(xp) == ~XPathSyntaxError(xp)

Evaluated(xp) == evaluate(xp, node, namespaces(node, default_ns_prefix))

(* the results of xp; an XPath that does not compile, or whose            *)
(* evaluation raises, finds nothing                                       *)
Found(xp) ==
    IF Compiles(xp) /\ ~Evaluated(xp).error THEN Evaluated(xp).results
    ELSE <<>>

WellFormed(xp) == Compiles(xp) /\ ~Evaluated(xp).error

PairwiseDistinct(s) == \A a, b \in DOMAIN s : a /= b => s[a] /= s[b]

Texts(s) == {s[k].text : k \in {j \in DOMAIN s : s[j].element = 0}}

Finished == outcome /= "running"

(* ---- claims ---- *)

(* C1: assertXmlDocument(data) returns the parsed root element when the   *)
(* parser accepts data, and raises failureException, returning nothing,   *)
(* when the parser rejects data with an XML syntax error.                 *)
C1_Document ==
    op = "assertXmlDocument" =>
        IF fromstring(data).raised = ""
        THEN outcome = "returned" /\ result = fromstring(data).doc
        ELSE outcome = failureException /\ result = NoElement

(* a document whose end tag does not match its start tag was rejected *)
C1_Witness ==
    /\ op = "assertXmlDocument"
    /\ Len(data) = 2
    /\ data[1].type = "open" /\ data[2].type = "close"
    /\ data[1].name /= data[2].name
    /\ outcome = failureException

(* C2: assertXpathsExist passes if and only if every XPath of xpaths      *)
(* selects at least one result on node, and raises failureException as    *)
(* soon as an XPath selects no result: the XPath it fails on is the first *)
(* of the list that selects nothing.                                      *)
C2_Exist ==
    op = "assertXpathsExist" =>
        /\ outcome \in {"running", "returned", failureException}
        /\ outcome \in {"running", "returned"} =>
               \A k \in DOMAIN xpaths : Found(xpaths[k]) /= <<>>
        /\ outcome = failureException =>
               /\ xpaths /= <<>>
               /\ Found(xpaths[Len(xpaths)]) = <<>>
               /\ \A k \in 1..(Len(xpaths) - 1) : Found(xpaths[k]) /= <<>>

(* the second XPath of the list selected nothing, after a first that did *)
C2_Witness ==
    /\ op = "assertXpathsExist"
    /\ outcome = failureException
    /\ Len(xpaths) = 2
    /\ WellFormed(xpaths[2])

(* C3: assertXpathsOnlyOne passes if and only if every XPath of xpaths    *)
(* selects one and exactly one result on node; an XPath that selects zero *)
(* results or more than one raises failureException.                      *)
C3_OnlyOne ==
    op = "assertXpathsOnlyOne" =>
        /\ outcome \in {"running", "returned", failureException}
        /\ outcome \in {"running", "returned"} =>
               \A k \in DOMAIN xpaths : Len(Found(xpaths[k])) = 1
        /\ outcome = failureException =>
               /\ xpaths /= <<>>
               /\ Len(Found(xpaths[Len(xpaths)])) /= 1

(* an XPath that selects two elements made the assertion fail *)
C3_Witness ==
    /\ op = "assertXpathsOnlyOne"
    /\ outcome = failureException
    /\ xpaths /= <<>>
    /\ Len(Found(xpaths[Len(xpaths)])) = 2

(* C4, as stated: assertXpathsUniqueValue passes if and only if, for each *)
(* XPath taken separately, the values it finds on node are pairwise       *)
(* distinct.                                                              *)
C4_AsStated ==
    (/\ op = "assertXpathsUniqueValue"
     /\ Finished
     /\ \A k \in DOMAIN xpaths : Compiles(xpaths[k])) =>
        (outcome = "returned" <=>
            \A k \in DOMAIN xpaths : PairwiseDistinct(Found(xpaths[k])))

(* C4, amended: assertXpathsUniqueValue passes if and only if every XPath *)
(* of xpaths compiles and evaluates without error and, taken separately,  *)
(* finds values that are pairwise distinct; otherwise it raises           *)
(* failureException.  A value found by two different XPaths of the list   *)
(* does not make it fail.                                                 *)
C4_UniqueValue ==
    op = "assertXpathsUniqueValue" =>
        /\ outcome \in {"running", "returned", failureException}
        /\ outcome \in {"running", "returned"} =>
               \A k \in DOMAIN xpaths :
                   WellFormed(xpaths[k]) /\ PairwiseDistinct(Found(xpaths[k]))
        /\ outcome = failureException =>
               /\ xpaths /= <<>>
               /\ \/ ~WellFormed(xpaths[Len(xpaths)])
                  \/ ~PairwiseDistinct(Found(xpaths[Len(xpaths)]))

(* the assertion passed on two different XPaths that find the same value *)
C4_Witness ==
    /\ op = "assertXpathsUniqueValue"
    /\ outcome = "returned"
    /\ Len(xpaths) = 2
    /\ xpaths[1] /= xpaths[2]
    /\ Texts(Found(xpaths[1])) \cap Texts(Found(xpaths[2])) /= {}

(* C5, as stated: assertXpathValues passes if and only if every value     *)
(* found by xpath on node is a member of values; in particular it passes  *)
(* when the XPath finds no value at all.                                  *)
C5_AsStated ==
    (op = "assertXpathValues" /\ Compiles(xpaths[1])) =>
        (outcome = "returned" <=>
            \A k \in DOMAIN Found(xpaths[1]) :
                /\ Found(xpaths[1])[k].element = 0
                /\ Found(xpaths[1])[k].text \in values)

(* C5, amended: assertXpathValues passes if and only if xpath compiles    *)
(* and evaluates without error and every value it finds on node is a      *)
(* member of values, and raises failureException otherwise; it passes     *)
(* when such an XPath finds no value at all, and it does not require      *)
(* every member of values to be found.                                    *)
C5_Values ==
    op = "assertXpathValues" =>
        /\ outcome \in {"returned", failureException}
        /\ outcome = "returned" <=>
               /\ WellFormed(xpaths[1])
               /\ \A k \in DOMAIN Found(xpaths[1]) :
                      /\ Found(xpaths[1])[k].element = 0
                      /\ Found(xpaths[1])[k].text \in values

(* the assertion passed although a member of values was not found *)
C5_Witness ==
    /\ op = "assertXpathValues"
    /\ outcome = "returned"
    /\ Found(xpaths[1]) /= <<>>
    /\ values \ Texts(Found(xpaths[1])) /= {}

XPathAssertions == {"assertXpathsExist", "assertXpathsOnlyOne",
                    "assertXpathsUniqueValue", "assertXpathValues"}

Declares(n, prefix) == \E k \in DOMAIN n.nsmap : n.nsmap[k].prefix = prefix

UrlOf(n, prefix) ==
    n.nsmap[CHOOSE k \in DOMAIN n.nsmap : n.nsmap[k].prefix = prefix].url

(* C6: for every XPath assertion, the namespace map the XPaths are        *)
(* compiled with binds the default namespace of the node to               *)
(* default_ns_prefix and every prefix the node declares to its own URI,   *)
(* and an unprefixed name in an XPath does not match an element that is   *)
(* in the default namespace.                                              *)
C6_NamespaceMap ==
    op \in XPathAssertions =>
        LET bound == namespaces(node, default_ns_prefix)
        IN /\ \A k \in DOMAIN node.nsmap :
                  LET key == IF node.nsmap[k].prefix = NoPrefix
                             THEN default_ns_prefix
                             ELSE node.nsmap[k].prefix
                  IN key \in DOMAIN bound /\ bound[key] = node.nsmap[k].url
           /\ \A j \in DOMAIN xpaths :
                  (xpaths[j].prefix = NoPrefix /\ Declares(node, NoPrefix)) =>
                      \A r \in DOMAIN Found(xpaths[j]) :
                          LET e == Found(xpaths[j])[r].element
                          IN e /= 0 =>
                              node.children[e].uri /= UrlOf(node, NoPrefix)

(* C7: with default_ns_prefix = P on a node with a default namespace, the *)
(* elements of the default namespace are selected through prefix P, the   *)
(* prefix "ns" is bound only if the node itself declares it, and an XPath *)
(* that uses "ns:" when it is not bound makes the assertion raise         *)
(* failureException.                                                      *)
C7_CustomPrefix ==
    (/\ op \in XPathAssertions
     /\ default_ns_prefix = "custom"
     /\ Declares(node, NoPrefix)) =>
        LET bound == namespaces(node, default_ns_prefix)
        IN /\ "custom" \in DOMAIN bound
           /\ bound["custom"] = UrlOf(node, NoPrefix)
           /\ "ns" \in DOMAIN bound => Declares(node, "ns")
           /\ \A j \in DOMAIN xpaths :
                  (xpaths[j].prefix = "ns" /\ ~Declares(node, "ns")) =>
                      j = Len(xpaths) /\ outcome = failureException

(* C8: assertXmlPartial wraps the fragment in one root element named      *)
(* root_tag, or default_partial_tag when root_tag is None; when it        *)
(* returns, the root has that tag and at least one child element; it      *)
(* raises failureException when the wrapped text does not parse and when  *)
(* the parsed root has no child element.                                  *)
C8_Partial ==
    op = "assertXmlPartial" =>
        LET tag_name == IF root_tag = None THEN default_partial_tag
                        ELSE root_tag
            wrapped == fromstring(consolidated(tag_name, data))
        IN /\ outcome \in {"returned", failureException}
           /\ outcome = "returned" =>
                  result.tag = tag_name /\ result.len >= 1
           /\ wrapped.raised /= "" => outcome = failureException
           /\ (wrapped.raised = "" /\ wrapped.doc.len = 0) =>
                  outcome = failureException

(* a fragment of two elements came back under the custom root tag *)
C8_Witness ==
    /\ op = "assertXmlPartial"
    /\ root_tag = "customTag"
    /\ outcome = "returned"
    /\ result.tag = "customTag"
    /\ result.len = 2

Validators == {"assertXmlValidDTD", "assertXmlValidXSchema",
               "assertXmlValidRelaxNG"}

(* the schema handed over in one of the three forms: as a text or as an   *)
(* lxml object (filename None), or as the name of a file (schema None)    *)
OneForm ==
    \/ schema.form /= None /\ filename = None
    \/ schema.form = None /\ filename \notin {None, "absent.file"}

SuppliedContent ==
    IF schema.form /= None THEN schema.content ELSE file_text(filename)

C10_NoSchema ==
    (op \in Validators /\ schema.form = None /\ filename = None) =>
        outcome = "ValueError" /\ ~validated

(* assertXmlValidRelaxNG(node) raised ValueError *)
C10_Witness ==
    /\ op = "assertXmlValidRelaxNG"
    /\ schema = NoSchema
    /\ filename = None
    /\ node.children /= <<>>
    /\ outcome = "ValueError"

(* ---- the attribute that a name denotes on the node of the call ---- *)

(* the attributes that the text of the attribute argument names: a bare   *)
(* name is in no namespace, '{uri}att' is in namespace uri, 'prefix:att'  *)
(* is in the namespace that the nsmap of the node binds to prefix         *)
Named(key) ==
    IF key.notation = "plain" THEN {[ns |-> "", tag |-> key.name]}
    ELSE IF key.notation = "clark" THEN {[ns |-> key.ns, tag |-> key.name]}
    ELSE {[ns |-> node.nsmap[k].url, tag |-> key.name] :
             k \in {j \in DOMAIN node.nsmap : node.nsmap[j].prefix = key.ns}}

HasAttributeNamed == Named(attribute) \cap DOMAIN attrib /= {}

ValueNamed == attrib[CHOOSE k \in Named(attribute) \cap DOMAIN attrib : TRUE]

Passed(name) == name \in kwargs.keys

(* C11: assertXmlHasAttribute(node, attribute) raises failureException    *)
(* when the node has no attribute of that name; with expected_value it    *)
(* passes if and only if the attribute exists and its value equals        *)
(* expected_value; with expected_values alone it passes if and only if    *)
(* the attribute exists and its value is a member of expected_values.     *)
C11_HasAttribute ==
    op = "assertXmlHasAttribute" =>
        /\ ~HasAttributeNamed => outcome = failureException
        /\ Passed("expected_value") =>
               (outcome = "returned" <=>
                    /\ HasAttributeNamed
                    /\ ValueNamed = kwargs.expected_value)
        /\ (Passed("expected_values") /\ ~Passed("expected_value")) =>
               (outcome = "returned" <=>
                    /\ HasAttributeNamed
                    /\ ValueNamed \in kwargs.expected_values)

(* the statement of C11 for the names without a prefix, 'att' and         *)
(* '{uri}att'                                                             *)
HasAttribute_Unprefixed == attribute.notation /= "prefixed" => C11_HasAttribute

(* C12: if expected_value is not None then expected_values is ignored:    *)
(* the outcome of a call that passes both is the outcome of the call that *)
(* passes expected_value alone, whatever expected_values contains.        *)
C12_ValuesIgnored ==
    (/\ op = "assertXmlHasAttribute"
     /\ Passed("expected_value")
     /\ kwargs.expected_value /= None
     /\ Passed("expected_values")) =>
        outcome = xml_has_attribute(attrib, attribute,
                      [keys |-> {"expected_value"},
                       expected_value |-> kwargs.expected_value,
                       expected_values |-> {}])

(* a call passed although the value of the attribute is not one of        *)
(* expected_values, as it equals expected_value                           *)
C12_Witness ==
    /\ op = "assertXmlHasAttribute"
    /\ kwargs.keys = {"expected_value", "expected_values"}
    /\ attrib_contains(attrib, attribute)
    /\ attrib_get(attrib, attribute) = kwargs.expected_value
    /\ attrib_get(attrib, attribute) \notin kwargs.expected_values
    /\ kwargs.expected_values /= {}
    /\ outcome = "returned"

(* C13: for a node that carries an attribute att in a namespace bound to  *)
(* prefix ns, assertXmlHasAttribute(node, 'ns:att') passes: the name is   *)
(* given in 'ns:att' notation.                                            *)
C13_PrefixNotation ==
    (/\ op = "assertXmlHasAttribute"
     /\ attribute.notation = "prefixed"
     /\ kwargs = NoKwargs
     /\ HasAttributeNamed) =>
        outcome = "returned"

(* ---- how two outputs differ ---- *)

(* the words of a text: its maximal runs of characters other than space   *)
RECURSIVE Words(_)
Words(t) ==
    IF t = <<>> THEN <<>>
    ELSE IF t[1] = " " THEN Words(Tail(t))
    ELSE LET n == CHOOSE k \in 1..Len(t) :
                      /\ \A i \in 1..k : t[i] /= " "
                      /\ k = Len(t) \/ t[k + 1] = " "
         IN <<SubSeq(t, 1, n)>> \o Words(SubSeq(t, n + 1, Len(t)))

BothXml == data.name /= "<" /\ expected.name /= "<"

SameName == data.name = expected.name

SameUri == data.ns.uri = expected.ns.uri

(* the outputs differ at most in the order of the attributes, in spaces   *)
(* at the ends of the text or in the length of a run of spaces, and in    *)
(* the prefix of the namespace                                            *)
DifferOnlyInForm ==
    /\ SameName
    /\ SameUri
    /\ Range(data.attributes) = Range(expected.attributes)
    /\ Words(data.text) = Words(expected.text)

(* the expected output matches every element name or every namespace *)
ExpectedAnyTag == expected.ns.uri = "" /\ expected.name = "any"

ExpectedAnyNamespace == expected.ns.uri = "..."

C14_NameDiffers ==
    /\ op = "assertXmlEquivalentOutputs"
    /\ data.name = "notTag"
    /\ expected.name = "tag"
    /\ data.attributes = expected.attributes
    /\ data.text = expected.text
    /\ data.ns = expected.ns
    /\ outcome = failureException

(* C15: in assertXpathsExist, assertXpathsOnlyOne,                        *)
(* assertXpathsUniqueValue and assertXpathValues every XPath error is     *)
(* turned into a test failure: an XPath that does not compile and an      *)
(* XPath that fails at evaluation (a prefix absent from the namespace     *)
(* map) both raise failureException, and neither XPathSyntaxError nor     *)
(* XPathEvalError reaches the caller.                                     *)
C15_XPathErrors ==
    op \in XPathAssertions =>
        /\ outcome \notin {"XPathSyntaxError", "XPathEvalError"}
        /\ (\E k \in DOMAIN xpaths : ~WellFormed(xpaths[k])) =>
               outcome = failureException

(* assertXpathsOnlyOne took one XPath that found its element, then one    *)
(* that does not compile, and failed                                      *)
C15_Witness ==
    /\ op = "assertXpathsOnlyOne"
    /\ Len(xpaths) = 2
    /\ WellFormed(xpaths[1])
    /\ XPathSyntaxError(xpaths[2])
    /\ outcome = failureException

(* assertXpathsExist failed on an XPath that compiles and uses a prefix   *)
(* that the namespace map does not bind                                   *)
C15_EvalErrorReached ==
    /\ op = "assertXpathsExist"
    /\ Len(xpaths) = 1
    /\ Compiles(xpaths[1])
    /\ Evaluated(xpaths[1]).error
    /\ outcome = failureException

====
